---- MODULE Spec2Model ----
(***************************************************************************)
(* A model of the PrecisionBloom filter of bloom-filter-rs: the bit array  *)
(* (bit_array.rs), the double-hashing index generator (hash.rs), the       *)
(* parameters (params.rs), the accuracy tracker (accuracy.rs) and the      *)
(* filter that composes them (filter.rs).                                  *)
(*                                                                         *)
(* A u64 word of the bit array is the set of its bit offsets that are 1.   *)
(* A u64 hash value is a sequence of eight 8-bit limbs, least significant  *)
(* first, so that wrapping 64-bit arithmetic is computed exactly.          *)
(***************************************************************************)
EXTENDS Integers, Sequences, FiniteSets, TLC

\* ------------------------------------------------------------------ bounds

\* num_hashes of the filters explored: 1..MaxHashes
MaxHashes == 3
\* expected_items of the filters explored: 1..MaxExpected
MaxExpected == 2
\* insert calls between two clears: enough to overfill every filter explored
MaxInserts == MaxExpected + 1
\* num_bits of the filters explored: below one word, exactly one word, and
\* two words with the last one partly used
NumBitsChoices == {3, 64, 70}

\* ------------------------------------------------------- 64-bit arithmetic

\* bits in a word of the bit array (u64)
WordBits == 64
\* a u64 is eight limbs of eight bits
LimbBase == 2^8

\* `i as u64`, for an i below 2^31
RECURSIVE ToLimbs(_, _)
ToLimbs(n, k) == IF k = 0 THEN <<>> ELSE <<n % LimbBase>> \o ToLimbs(n \div LimbBase, k - 1)
ToU64(n) == ToLimbs(n, 8)

\* u64::MAX and 2^63
U64Max == LET m == LimbBase - 1 IN <<m, m, m, m, m, m, m, m>>
U64Pow63 == <<0, 0, 0, 0, 0, 0, 0, LimbBase \div 2>>

\* u64::wrapping_add: the carry out of the top limb is dropped
RECURSIVE AddLimbs(_, _, _, _)
AddLimbs(a, b, k, carry) ==
    IF k > 8 THEN <<>>
    ELSE LET s == a[k] + b[k] + carry
         IN  <<s % LimbBase>> \o AddLimbs(a, b, k + 1, s \div LimbBase)
wrapping_add(a, b) == AddLimbs(a, b, 1, 0)

\* u64::wrapping_mul: schoolbook product, limbs above the eighth dropped
RECURSIVE Conv(_, _, _, _)
Conv(a, b, k, i) ==
    IF i > k THEN 0 ELSE a[i] * b[k + 1 - i] + Conv(a, b, k, i + 1)
RECURSIVE MulLimbs(_, _, _, _)
MulLimbs(a, b, k, carry) ==
    IF k > 8 THEN <<>>
    ELSE LET s == Conv(a, b, k, 1) + carry
         IN  <<s % LimbBase>> \o MulLimbs(a, b, k + 1, s \div LimbBase)
wrapping_mul(a, b) == MulLimbs(a, b, 1, 0)

\* `x % m` for a u64 x and a modulus m below 2^23: a native-sized result
RECURSIVE ModLimbs(_, _, _, _)
ModLimbs(a, k, r, m) ==
    IF k = 0 THEN r ELSE ModLimbs(a, k - 1, (r * LimbBase + a[k]) % m, m)
U64Mod(a, m) == ModLimbs(a, 8, 0, m)

\* ------------------------------------------------------------------- items

\* The two hash functions are library code: an item is known to the filter
\* only through its two 64-bit hashes, so an item is that pair.
\* The pairs explored: every position the same (h2 = 0), consecutive
\* positions, a sum that wraps at 2^64, a product that wraps at 2^64.
Item(h1, h2) == [h1 |-> h1, h2 |-> h2]
Items ==
    { Item(ToU64(0), ToU64(0)),
      Item(ToU64(1), ToU64(1)),
      Item(ToU64(69), ToU64(1)),
      Item(U64Max, ToU64(1)),
      Item(ToU64(69), U64Pow63),
      Item(U64Max, U64Max) }
NoItem == [h1 |-> ToU64(0), h2 |-> ToU64(0), none |-> TRUE]

hash_with_ahash(item) == item.h1
hash_with_seahash(item) == item.h2

\* ------------------------------------------------------------- bit_array.rs

\* usize: a value at or above 2^63 is kept as the negative integer it is
\* congruent to modulo 2^64 (u - 2^64), a value below 2^63 as itself, so
\* that + is the addition of the machine; the order of usize is usize_lt
UsizeMax == 0 - 1
usize_lt(a, b) == IF (a < 0) = (b < 0) THEN a < b ELSE b < 0

\* a new that fills the words with ones
BitArray_new_ones(capacity) ==
    LET sum == capacity + 63
        num_words == sum \div WordBits
    IN  IF ~usize_lt(0, capacity) THEN [panic |-> TRUE, overflow |-> FALSE]
        ELSE IF sum < 0 THEN [panic |-> TRUE, overflow |-> FALSE]
        ELSE [panic |-> FALSE,
              overflow |-> capacity < 0,
              bits |-> [words |-> [w \in 1..num_words |-> 0..(WordBits - 1)],
                        capacity |-> capacity]]

\* new: the assertion capacity > 0, then num_words zeroed words.
\* capacity + 63 exceeds usize::MAX when capacity > usize::MAX - 63
\* (overflow): a build with overflow checks panics there, a build without
\* them goes on with the sum modulo 2^64, and the caller of the operator
\* decides which. A sum of 2^63 or more asks for 2^57 words or more, which
\* vec! cannot allocate.
BitArray_new(capacity) ==
    LET sum == capacity + 63
        num_words == sum \div WordBits
    IN  IF ~usize_lt(0, capacity) THEN [panic |-> TRUE, overflow |-> FALSE]
        ELSE IF sum < 0 THEN [panic |-> TRUE, overflow |-> FALSE]
        ELSE [panic |-> FALSE,
              overflow |-> capacity < 0,
              bits |-> [words |-> [w \in 1..num_words |-> {}], capacity |-> capacity]]

\* get: the bounds assertion, then the test of one bit; indexing the Vec
\* panics when the word is not there
BitArray_get(b, index) ==
    IF ~usize_lt(index, b.capacity) THEN [panic |-> TRUE, value |-> FALSE]
    ELSE LET word_index == index \div WordBits
             bit_index == index % WordBits
         IN  IF index < 0 \/ word_index + 1 \notin DOMAIN b.words
             THEN [panic |-> TRUE, value |-> FALSE]
             ELSE [panic |-> FALSE, value |-> bit_index \in b.words[word_index + 1]]

\* a set that assigns the mask to the word instead of or-ing it in
BitArray_set_assign(b, index) ==
    IF ~usize_lt(index, b.capacity) THEN [panic |-> TRUE, bits |-> b]
    ELSE LET word_index == index \div WordBits
             bit_index == index % WordBits
         IN  IF index < 0 \/ word_index + 1 \notin DOMAIN b.words
             THEN [panic |-> TRUE, bits |-> b]
             ELSE [panic |-> FALSE,
                   bits |-> [b EXCEPT !.words[word_index + 1] = {bit_index}]]

\* a set whose mask is shifted by the word index instead of the bit index
BitArray_set_mask_by_word(b, index) ==
    IF ~usize_lt(index, b.capacity) THEN [panic |-> TRUE, bits |-> b]
    ELSE LET word_index == index \div WordBits
             bit_index == index % WordBits
         IN  IF index < 0 \/ word_index + 1 \notin DOMAIN b.words
             THEN [panic |-> TRUE, bits |-> b]
             ELSE [panic |-> FALSE,
                   bits |-> [b EXCEPT !.words[word_index + 1] = @ \cup {word_index}]]

\* a set whose assertion bounds the index by the bits allocated, not by the
\* capacity
BitArray_set_word_bounds(b, index) ==
    IF ~usize_lt(index, Len(b.words) * WordBits) THEN [panic |-> TRUE, bits |-> b]
    ELSE LET word_index == index \div WordBits
             bit_index == index % WordBits
         IN  IF index < 0 \/ word_index + 1 \notin DOMAIN b.words
             THEN [panic |-> TRUE, bits |-> b]
             ELSE [panic |-> FALSE,
                   bits |-> [b EXCEPT !.words[word_index + 1] = @ \cup {bit_index}]]

\* set: the bounds assertion, then words[word_index] |= 1 << bit_index;
\* indexing the Vec panics when the word is not there
BitArray_set(b, index) ==
    IF ~usize_lt(index, b.capacity) THEN [panic |-> TRUE, bits |-> b]
    ELSE LET word_index == index \div WordBits
             bit_index == index % WordBits
         IN  IF index < 0 \/ word_index + 1 \notin DOMAIN b.words
             THEN [panic |-> TRUE, bits |-> b]
             ELSE [panic |-> FALSE,
                   bits |-> [b EXCEPT !.words[word_index + 1] = @ \cup {bit_index}]]

\* a clear that zeroes the first word only
BitArray_clear_first_word(b) ==
    [b EXCEPT !.words = [w \in DOMAIN b.words |-> IF w = 1 THEN {} ELSE b.words[w]]]

BitArray_clear(b) == [b EXCEPT !.words = [w \in DOMAIN b.words |-> {}]]

\* a population count that counts the zeros of each word
RECURSIVE SumZeros(_, _)
SumZeros(words, w) ==
    IF w > Len(words) THEN 0
    ELSE (WordBits - Cardinality(words[w])) + SumZeros(words, w + 1)

RECURSIVE SumOnes(_, _)
SumOnes(words, w) ==
    IF w > Len(words) THEN 0 ELSE Cardinality(words[w]) + SumOnes(words, w + 1)
BitArray_count_ones(b) == SumOnes(b.words, 1)

\* saturation is the f64 quotient count_ones / capacity: kept as the fraction
BitArray_saturation(b) == [num |-> BitArray_count_ones(b), den |-> b.capacity]

\* from_words: the assertion on the number of words, then the words and the
\* capacity as they were given. capacity + 63 overflows as it does in new; a
\* sum of 2^63 or more requires more words than a Vec can hold
BitArray_from_words(words, capacity) ==
    LET sum == capacity + 63
        required_words == sum \div WordBits
    IN  IF sum < 0 \/ ~(Len(words) >= required_words)
        THEN [panic |-> TRUE, overflow |-> FALSE]
        ELSE [panic |-> FALSE,
              overflow |-> capacity < 0,
              bits |-> [words |-> words, capacity |-> capacity]]

\* #[derive(Clone)]: Vec::clone allocates, so the clone owns a copy of the
\* words ("own") and does not point at the words it was cloned from ("shared")
BitArray_clone(b) == [at |-> "own", words |-> b.words, capacity |-> b.capacity]

\* ------------------------------------------------------------------ hash.rs

HashStrategy_new(num_hashes, num_bits) ==
    [num_hashes |-> num_hashes, num_bits |-> num_bits]

\* a compute_index that adds i to the sum, so that equal hashes spread out
compute_index_plus_i(hs, h1, h2, i) ==
    LET i_u64 == ToU64(i)
        combined == wrapping_add(wrapping_add(h1, wrapping_mul(i_u64, h2)), i_u64)
    IN  U64Mod(combined, hs.num_bits)

\* a compute_index that reduces the two hashes modulo num_bits before it
\* combines them
compute_index_reduce_first(hs, h1, h2, i) ==
    (U64Mod(h1, hs.num_bits) + i * U64Mod(h2, hs.num_bits)) % hs.num_bits

\* a compute_index whose modulus is one too large
compute_index_mod_plus_one(hs, h1, h2, i) ==
    LET i_u64 == ToU64(i)
        combined == wrapping_add(h1, wrapping_mul(i_u64, h2))
    IN  U64Mod(combined, hs.num_bits + 1)

compute_index(hs, h1, h2, i) ==
    LET i_u64 == ToU64(i)
        combined == wrapping_add(h1, wrapping_mul(i_u64, h2))
    IN  U64Mod(combined, hs.num_bits)

hash_indices_of(hs, item) ==
    LET h1 == hash_with_ahash(item)
        h2 == hash_with_seahash(item)
    IN  [n \in 1..hs.num_hashes |-> compute_index(hs, h1, h2, n - 1)]

\* ---------------------------------------------------------------- params.rs

\* An f64 is NaN or a number. A number is kept in millionths, with the two
\* values the code compares against, 0.0 and 1.0, kept exact: val = 0 is 0.0,
\* val = FprOne is 1.0, and every number strictly between 0.0 and 1.0 has
\* 0 < val < FprOne, however close to an end it lies.
FprOne == 1000000
NaN == [nan |-> TRUE, val |-> 0]
F64(v) == [nan |-> FALSE, val |-> v]

\* the IEEE-754 comparisons: each is false when an operand is NaN
f64_lt(a, b) == ~a.nan /\ ~b.nan /\ a.val < b.val
f64_le(a, b) == ~a.nan /\ ~b.nan /\ a.val <= b.val
f64_gt(a, b) == ~a.nan /\ ~b.nan /\ a.val > b.val
f64_ge(a, b) == ~a.nan /\ ~b.nan /\ a.val >= b.val

\* the target rates of the filters explored: 0.01
FprChoices == {F64(10000)}

BloomParameters(num_bits, num_hashes, expected_items, false_positive_rate) ==
    [num_bits |-> num_bits, num_hashes |-> num_hashes,
     expected_items |-> expected_items, false_positive_rate |-> false_positive_rate]

\* ceil(a / b) for a >= 0, b > 0
CeilDiv(a, b) == (a + b - 1) \div b
Max(a, b) == IF a >= b THEN a ELSE b

\* natural logarithms in units of 1 / LnScale
LnScale == 100000
Ln2 == 69315
Ln2Squared == 48045
\* -ln(p) for the rates p handed to from_item_count
NegLn(p) ==
    CASE p.val = 10000  -> 460517
      [] p.val = 250000 -> 138629
      [] p.val = 500000 -> 69315

\* the optimal number of hashes, ((m / n) * ln 2).ceil().max(1)
optimal_num_hashes(m, n) == Max(CeilDiv(m * Ln2, n * LnScale), 1)

\* a * b for two numbers in millionths, rounded down
FixMul(a, b) == ((a * (b \div 1000)) + ((a * (b % 1000)) \div 1000)) \div 1000

\* exp(-1), and the Taylor series of exp(-f) for 0 <= f < 1, in millionths
ExpMinusOne == 367879
SeriesTerms == 12
RECURSIVE ExpSeries(_, _, _, _)
ExpSeries(f, j, term, acc) ==
    IF j > SeriesTerms THEN acc
    ELSE LET t == FixMul(term, f) \div j
         IN  ExpSeries(f, j + 1, t, IF j % 2 = 1 THEN acc - t ELSE acc + t)
RECURSIVE ExpInt(_, _)
ExpInt(q, acc) == IF q = 0 THEN acc ELSE ExpInt(q - 1, FixMul(acc, ExpMinusOne))

\* 1.0 - x rounds to 1.0 as soon as x <= 2^-54, half the gap between 1.0 and
\* the f64 below it; a positive f64 result below 2^-1075 rounds to 0.0
HalfUlpBits == 54
UnderflowBits == 1075

\* exp(-q) <= 2^-54 for q = kn / m, that is q >= 54 ln 2 (37.43), m > 0
ExpBelowHalfUlp(kn, m) ==
    LET whole == (HalfUlpBits * Ln2) \div LnScale
        rest == (HalfUlpBits * Ln2) % LnScale
    IN  IF kn >= (whole + 1) * m THEN TRUE
        ELSE IF kn < whole * m THEN FALSE
        ELSE (kn - whole * m) * LnScale >= rest * m

\* a number 0 < x < 1 as mant * 2^-exp2, with mant in millionths in [1/2, 1)
RECURSIVE Normalise(_, _)
Normalise(mant, exp2) ==
    IF mant >= FprOne \div 2 THEN [mant |-> mant, exp2 |-> exp2]
    ELSE Normalise(2 * mant, exp2 + 1)
RECURSIVE Denormalise(_, _)
Denormalise(mant, exp2) ==
    IF exp2 = 0 \/ mant = 0 THEN mant ELSE Denormalise(mant \div 2, exp2 - 1)
\* the product of two such numbers
NormMul(a, b) == Normalise(FixMul(a.mant, b.mant), a.exp2 + b.exp2)
\* acc * base^k for 0 < base < 1, k >= 0, by repeated squaring
RECURSIVE PowLoop(_, _, _)
PowLoop(base, k, acc) ==
    IF k = 0 THEN acc
    ELSE PowLoop(NormMul(base, base), k \div 2,
                 IF k % 2 = 1 THEN NormMul(acc, base) ELSE acc)

\* f64::powf(base, k) for 0.0 <= base <= 1.0 and an integer k >= 0
powf(base, k) ==
    IF base.nan THEN (IF k = 0 THEN F64(FprOne) ELSE NaN)
    ELSE IF k = 0 \/ base.val = FprOne THEN F64(FprOne)
    ELSE IF base.val = 0 THEN F64(0)
    ELSE LET r == PowLoop(Normalise(base.val, 0), k, [mant |-> FprOne, exp2 |-> 0])
         IN  IF r.exp2 >= UnderflowBits THEN F64(0)
             ELSE F64(Max(Denormalise(r.mant, r.exp2), 1))

\* 1.0 - f64::exp(-k * n / m), kn = k * n
one_minus_exp(kn, m) ==
    IF m = 0 THEN (IF kn = 0 THEN NaN ELSE F64(FprOne))
    ELSE IF kn = 0 THEN F64(0)
    ELSE IF ExpBelowHalfUlp(kn, m) THEN F64(FprOne)
    ELSE LET frac == ((kn % m) * FprOne) \div m
             e == FixMul(ExpInt(kn \div m, FprOne), ExpSeries(frac, 1, FprOne, FprOne))
         IN  F64(Max(1, IF FprOne - e > FprOne - 1 THEN FprOne - 1 ELSE FprOne - e))

calculate_fpr(num_bits, num_hashes, expected_items) ==
    LET base == one_minus_exp(num_hashes * expected_items, num_bits)
    IN  powf(base, num_hashes)

\* a from_item_count that divides by ln 2 where the formula has ln(2)^2
from_item_count_single_ln2(expected_items, false_positive_rate) ==
    IF expected_items <= 0 THEN [panic |-> TRUE]
    ELSE IF ~(f64_gt(false_positive_rate, F64(0)) /\ f64_lt(false_positive_rate, F64(FprOne)))
         THEN [panic |-> TRUE]
    ELSE LET num_bits == CeilDiv(expected_items * NegLn(false_positive_rate), Ln2)
             num_hashes == optimal_num_hashes(num_bits, expected_items)
         IN  [panic |-> FALSE,
              params |-> BloomParameters(num_bits, num_hashes, expected_items,
                                         false_positive_rate)]

\* a from_item_count that stores the rate its sizes achieve in place of the
\* target rate it was given
from_item_count_achieved_rate(expected_items, false_positive_rate) ==
    IF expected_items <= 0 THEN [panic |-> TRUE]
    ELSE IF ~(f64_gt(false_positive_rate, F64(0)) /\ f64_lt(false_positive_rate, F64(FprOne)))
         THEN [panic |-> TRUE]
    ELSE LET num_bits == CeilDiv(expected_items * NegLn(false_positive_rate), Ln2Squared)
             num_hashes == optimal_num_hashes(num_bits, expected_items)
         IN  [panic |-> FALSE,
              params |-> BloomParameters(num_bits, num_hashes, expected_items,
                             calculate_fpr(num_bits, num_hashes, expected_items))]

\* from_item_count: the parameters, or the panic of one of its assertions
from_item_count(expected_items, false_positive_rate) ==
    IF expected_items <= 0 THEN [panic |-> TRUE]
    ELSE IF ~(f64_gt(false_positive_rate, F64(0)) /\ f64_lt(false_positive_rate, F64(FprOne)))
         THEN [panic |-> TRUE]
    ELSE LET num_bits == CeilDiv(expected_items * NegLn(false_positive_rate), Ln2Squared)
             num_hashes == optimal_num_hashes(num_bits, expected_items)
         IN  [panic |-> FALSE,
              params |-> BloomParameters(num_bits, num_hashes, expected_items,
                                         false_positive_rate)]

\* from_bit_count: the parameters, or the panic of one of its assertions
from_bit_count(num_bits, expected_items) ==
    IF num_bits <= 0 THEN [panic |-> TRUE]
    ELSE IF expected_items <= 0 THEN [panic |-> TRUE]
    ELSE LET num_hashes == optimal_num_hashes(num_bits, expected_items)
             false_positive_rate == calculate_fpr(num_bits, num_hashes, expected_items)
         IN  [panic |-> FALSE,
              params |-> BloomParameters(num_bits, num_hashes, expected_items,
                                         false_positive_rate)]

\* a validate that tests the rate the way from_item_count asserts it
validate_strictly_inside(p) ==
    IF p.num_bits = 0 THEN "num_bits must be greater than 0"
    ELSE IF p.num_hashes = 0 THEN "num_hashes must be greater than 0"
    ELSE IF p.expected_items = 0 THEN "expected_items must be greater than 0"
    ELSE IF ~(f64_gt(p.false_positive_rate, F64(0)) /\ f64_lt(p.false_positive_rate, F64(FprOne)))
         THEN "false_positive_rate must be between 0 and 1"
    ELSE "Ok"

validate(p) ==
    IF p.num_bits = 0 THEN "num_bits must be greater than 0"
    ELSE IF p.num_hashes = 0 THEN "num_hashes must be greater than 0"
    ELSE IF p.expected_items = 0 THEN "expected_items must be greater than 0"
    ELSE IF f64_le(p.false_positive_rate, F64(0)) \/ f64_ge(p.false_positive_rate, F64(FprOne))
         THEN "false_positive_rate must be between 0 and 1"
    ELSE "Ok"

\* -------------------------------------------------------------- accuracy.rs

AccuracyTracker_new(p) ==
    [params |-> p, items_inserted |-> 0, queries_performed |-> 0]

\* a record_insert that counts a query
record_insert_as_query(t) == [t EXCEPT !.queries_performed = @ + 1]

record_insert(t) == [t EXCEPT !.items_inserted = @ + 1]
record_query(t) == [t EXCEPT !.queries_performed = @ + 1]
items_inserted(t) == t.items_inserted
queries_performed(t) == t.queries_performed
\* an overfill test that already fires at expected_items
AccuracyTracker_is_overfilled_at(t) == t.items_inserted >= t.params.expected_items
AccuracyTracker_is_overfilled(t) == t.items_inserted > t.params.expected_items
AccuracyTracker_reset(t) == [t EXCEPT !.items_inserted = 0, !.queries_performed = 0]

\* ---------------------------------------------------------------- filter.rs

\* the index generators of the filters explored: those built from explicit
\* parameters, and those with_capacity builds
CapRateChoices == {F64(10000), F64(500000)}
HashStrategies ==
    {HashStrategy_new(k, m) : k \in 1..MaxHashes, m \in NumBitsChoices}
    \cup {LET p == from_item_count(n, r).params
          IN  HashStrategy_new(p.num_hashes, p.num_bits) :
              n \in 1..MaxExpected, r \in CapRateChoices}
\* hash_indices is a pure function of the strategy and the item: its values
\* for the strategies and items explored are computed once
HashIndexTable ==
    [hs \in HashStrategies |-> [item \in Items |-> hash_indices_of(hs, item)]]
hash_indices(hs, item) == HashIndexTable[hs][item]

VARIABLES
    bits,           \* PrecisionBloom.bits: the BitArray
    hash_strategy,  \* PrecisionBloom.hash_strategy
    params,         \* PrecisionBloom.params
    tracker,        \* PrecisionBloom.tracker: the AccuracyTracker
    phase,          \* "ok", or "panicked" once an operation has failed
    last,           \* the last call made: its name, its item, what it returned
    inserted,       \* history: the items inserted since construction or the last clear
    insert_calls,   \* history: the insert calls made since construction or the last clear
    cleared,        \* history: clear was called and nothing has been inserted since
    dropped,        \* history: while cleared, the items that clear removed
    built,          \* history: the constructor called and its arguments
    other,          \* a clone of the filter, or NoFilter
    threads         \* the callers that run an operation step by step: where each
                    \* is in its operation and what it holds in its locals

vars == <<bits, hash_strategy, params, tracker, phase, last, inserted, insert_calls,
          cleared, dropped, built, other, threads>>

\* what the variables hold where no filter, or no part of one, has been created
NoBits == [words |-> <<>>, capacity |-> 0]
NoStrategy == [none |-> TRUE]
NoParams == [none |-> TRUE]
NoTracker == [none |-> TRUE]
NoFilter == [none |-> TRUE]

\* the callers, and what threads holds where the operations are not run step
\* by step
Threads == {1, 2}
NoThreads == [t \in Threads |-> [pc |-> "none"]]

\* the filter as one value
Self == [bits |-> bits, hash_strategy |-> hash_strategy, params |-> params,
         tracker |-> tracker]

\* a new that hands HashStrategy::new its two arguments in the wrong order
PrecisionBloom_new_swapped(p) ==
    IF validate(p) # "Ok" THEN [panic |-> TRUE]
    ELSE IF BitArray_new(p.num_bits).panic THEN [panic |-> TRUE]
    ELSE [panic |-> FALSE,
          bits |-> BitArray_new(p.num_bits).bits,
          hash_strategy |-> HashStrategy_new(p.num_bits, p.num_hashes),
          params |-> p,
          tracker |-> AccuracyTracker_new(p)]

\* (the num_bits explored are below usize::MAX - 63, where the capacity + 63 of
\* BitArray::new does not overflow)
PrecisionBloom_new(p) ==
    IF validate(p) # "Ok" THEN [panic |-> TRUE]
    ELSE IF BitArray_new(p.num_bits).panic THEN [panic |-> TRUE]
    ELSE [panic |-> FALSE,
          bits |-> BitArray_new(p.num_bits).bits,
          hash_strategy |-> HashStrategy_new(p.num_hashes, p.num_bits),
          params |-> p,
          tracker |-> AccuracyTracker_new(p)]

\* with_capacity: from_item_count, then new
with_capacity(expected_items, false_positive_rate) ==
    LET p == from_item_count(expected_items, false_positive_rate)
    IN  IF p.panic THEN [panic |-> TRUE] ELSE PrecisionBloom_new(p.params)

\* an insert loop that leaves at the first bit it sets
RECURSIVE insert_loop_stop_early(_, _, _, _)
insert_loop_stop_early(b, indices, n, was_absent) ==
    IF n > Len(indices) THEN [panic |-> FALSE, bits |-> b, was_absent |-> was_absent]
    ELSE LET g == BitArray_get(b, indices[n])
         IN  IF g.panic THEN [panic |-> TRUE, bits |-> b, was_absent |-> was_absent]
             ELSE IF ~g.value
                  THEN LET s == BitArray_set(b, indices[n])
                       IN  [panic |-> s.panic, bits |-> s.bits, was_absent |-> TRUE]
                  ELSE insert_loop_stop_early(b, indices, n + 1, was_absent)

\* an insert loop whose flag is overwritten at every index: the last one wins
RECURSIVE insert_loop_last_wins(_, _, _, _)
insert_loop_last_wins(b, indices, n, was_absent) ==
    IF n > Len(indices) THEN [panic |-> FALSE, bits |-> b, was_absent |-> was_absent]
    ELSE LET g == BitArray_get(b, indices[n])
         IN  IF g.panic THEN [panic |-> TRUE, bits |-> b, was_absent |-> was_absent]
             ELSE IF ~g.value
                  THEN LET s == BitArray_set(b, indices[n])
                       IN  IF s.panic
                           THEN [panic |-> TRUE, bits |-> b, was_absent |-> TRUE]
                           ELSE insert_loop_last_wins(s.bits, indices, n + 1, TRUE)
                  ELSE insert_loop_last_wins(b, indices, n + 1, FALSE)

\* an insert loop that sets the bit before it tests it
RECURSIVE insert_loop_set_first(_, _, _, _)
insert_loop_set_first(b, indices, n, was_absent) ==
    IF n > Len(indices) THEN [panic |-> FALSE, bits |-> b, was_absent |-> was_absent]
    ELSE LET s == BitArray_set(b, indices[n])
         IN  IF s.panic THEN [panic |-> TRUE, bits |-> b, was_absent |-> was_absent]
             ELSE LET g == BitArray_get(s.bits, indices[n])
                  IN  insert_loop_set_first(s.bits, indices, n + 1,
                                            was_absent \/ ~g.value)

\* the loop of insert over the indices, from the n-th on
RECURSIVE insert_loop(_, _, _, _)
insert_loop(b, indices, n, was_absent) ==
    IF n > Len(indices) THEN [panic |-> FALSE, bits |-> b, was_absent |-> was_absent]
    ELSE LET g == BitArray_get(b, indices[n])
         IN  IF g.panic THEN [panic |-> TRUE, bits |-> b, was_absent |-> was_absent]
             ELSE IF ~g.value
                  THEN LET s == BitArray_set(b, indices[n])
                       IN  IF s.panic
                           THEN [panic |-> TRUE, bits |-> b, was_absent |-> TRUE]
                           ELSE insert_loop(s.bits, indices, n + 1, TRUE)
                  ELSE insert_loop(b, indices, n + 1, was_absent)

\* an insert that records the insertion only when a bit was newly set
PrecisionBloom_insert_count_new(self, item) ==
    LET indices == hash_indices(self.hash_strategy, item)
        r == insert_loop(self.bits, indices, 1, FALSE)
        t == IF r.was_absent THEN record_insert(self.tracker) ELSE self.tracker
    IN  [panic |-> r.panic, ret |-> r.was_absent,
         self |-> [self EXCEPT !.tracker = t, !.bits = r.bits]]

\* an insert that records a query as well as an insertion
PrecisionBloom_insert_records_query(self, item) ==
    LET t == record_query(record_insert(self.tracker))
        indices == hash_indices(self.hash_strategy, item)
        r == insert_loop(self.bits, indices, 1, FALSE)
    IN  [panic |-> r.panic, ret |-> r.was_absent,
         self |-> [self EXCEPT !.tracker = t, !.bits = r.bits]]

\* an insert that returns whether the item was already present
PrecisionBloom_insert_returns_present(self, item) ==
    LET t == record_insert(self.tracker)
        indices == hash_indices(self.hash_strategy, item)
        r == insert_loop(self.bits, indices, 1, FALSE)
    IN  [panic |-> r.panic, ret |-> ~r.was_absent,
         self |-> [self EXCEPT !.tracker = t, !.bits = r.bits]]

\* insert: the filter after the call, what it returned, whether it panicked
PrecisionBloom_insert(self, item) ==
    LET t == record_insert(self.tracker)
        indices == hash_indices(self.hash_strategy, item)
        r == insert_loop(self.bits, indices, 1, FALSE)
    IN  [panic |-> r.panic, ret |-> r.was_absent,
         self |-> [self EXCEPT !.tracker = t, !.bits = r.bits]]

\* a contains that asks for any position to be set, not all
RECURSIVE contains_any(_, _, _)
contains_any(b, indices, n) ==
    IF n > Len(indices) THEN [panic |-> FALSE, value |-> FALSE]
    ELSE LET g == BitArray_get(b, indices[n])
         IN  IF g.panic THEN [panic |-> TRUE, value |-> FALSE]
             ELSE IF g.value THEN [panic |-> FALSE, value |-> TRUE]
             ELSE contains_any(b, indices, n + 1)

\* indices.iter().all(..): stops at the first unset position
RECURSIVE contains_all(_, _, _)
contains_all(b, indices, n) ==
    IF n > Len(indices) THEN [panic |-> FALSE, value |-> TRUE]
    ELSE LET g == BitArray_get(b, indices[n])
         IN  IF g.panic THEN [panic |-> TRUE, value |-> FALSE]
             ELSE IF ~g.value THEN [panic |-> FALSE, value |-> FALSE]
             ELSE contains_all(b, indices, n + 1)

PrecisionBloom_contains(self, item) ==
    contains_all(self.bits, hash_indices(self.hash_strategy, item), 1)

\* a may_contain written on its own, asking for any position to be set
PrecisionBloom_may_contain_any(self, item) ==
    contains_any(self.bits, hash_indices(self.hash_strategy, item), 1)

PrecisionBloom_may_contain(self, item) == PrecisionBloom_contains(self, item)

\* a clear that zeroes the bits and forgets the tracker
PrecisionBloom_clear_bits_only(self) ==
    [self EXCEPT !.bits = BitArray_clear(self.bits)]

PrecisionBloom_clear(self) ==
    [self EXCEPT !.bits = BitArray_clear(self.bits),
                 !.tracker = AccuracyTracker_reset(self.tracker)]

\* a clone whose bit array points at the words of the filter it was cloned from
PrecisionBloom_clone_shared_words(self) ==
    [bits |-> [BitArray_clone(self.bits) EXCEPT !.at = "shared"],
     hash_strategy |-> self.hash_strategy,
     params |-> self.params,
     tracker |-> self.tracker]

\* #[derive(Clone)]: every field is cloned
PrecisionBloom_clone(self) ==
    [bits |-> BitArray_clone(self.bits),
     hash_strategy |-> self.hash_strategy,
     params |-> self.params,
     tracker |-> self.tracker]

len(self) == items_inserted(self.tracker)
capacity(self) == self.params.expected_items
num_bits(self) == self.params.num_bits
num_hashes(self) == self.params.num_hashes
theoretical_fpr(t) == t.params.false_positive_rate
false_positive_rate(self) == theoretical_fpr(self.tracker)
is_empty(self) == len(self) = 0
saturation(self) == BitArray_saturation(self.bits)
is_overfilled(self) == AccuracyTracker_is_overfilled(self.tracker)

\* ----------------------------------------------------------- state machine

ParamChoices ==
    {BloomParameters(m, k, n, p) :
        m \in NumBitsChoices, k \in 1..MaxHashes, n \in 1..MaxExpected, p \in FprChoices}

\* the state after PrecisionBloom::new(p) has returned, for the p explored
Init ==
    \E p \in ParamChoices :
        LET f == PrecisionBloom_new(p)
        IN  /\ ~f.panic
            /\ bits = f.bits
            /\ hash_strategy = f.hash_strategy
            /\ params = f.params
            /\ tracker = f.tracker
            /\ phase = "ok"
            /\ last = [op |-> "new", item |-> NoItem, ret |-> FALSE]
            /\ inserted = {}
            /\ insert_calls = 0
            /\ cleared = FALSE
            /\ dropped = {}
            /\ built = [op |-> "new", params |-> p]
            /\ other = NoFilter
            /\ threads = NoThreads

Insert(item) ==
    /\ phase = "ok"
    /\ insert_calls < MaxInserts
    /\ LET r == PrecisionBloom_insert(Self, item)
       IN  /\ bits' = r.self.bits
           /\ tracker' = r.self.tracker
           /\ phase' = IF r.panic THEN "panicked" ELSE "ok"
           /\ last' = [op |-> "insert", item |-> item, ret |-> r.ret]
    /\ inserted' = inserted \cup {item}
    /\ insert_calls' = insert_calls + 1
    /\ cleared' = FALSE
    /\ dropped' = {}
    /\ UNCHANGED <<hash_strategy, params, built, other, threads>>

\* a contains that records an insertion in the tracker
Contains_recording_insert(item) ==
    /\ phase = "ok"
    /\ LET r == PrecisionBloom_contains(Self, item)
       IN  /\ phase' = IF r.panic THEN "panicked" ELSE "ok"
           /\ last' = [op |-> "contains", item |-> item, ret |-> r.value]
    /\ tracker' = record_insert(tracker)
    /\ UNCHANGED <<bits, hash_strategy, params, inserted, insert_calls,
                 cleared, dropped, built, other, threads>>

Contains(item) ==
    /\ phase = "ok"
    /\ LET r == PrecisionBloom_contains(Self, item)
       IN  /\ phase' = IF r.panic THEN "panicked" ELSE "ok"
           /\ last' = [op |-> "contains", item |-> item, ret |-> r.value]
    /\ UNCHANGED <<bits, hash_strategy, params, tracker, inserted, insert_calls,
                 cleared, dropped, built, other, threads>>

MayContain(item) ==
    /\ phase = "ok"
    /\ LET r == PrecisionBloom_may_contain(Self, item)
       IN  /\ phase' = IF r.panic THEN "panicked" ELSE "ok"
           /\ last' = [op |-> "may_contain", item |-> item, ret |-> r.value]
    /\ UNCHANGED <<bits, hash_strategy, params, tracker, inserted, insert_calls,
                 cleared, dropped, built, other, threads>>

Clear ==
    /\ phase = "ok"
    /\ LET f == PrecisionBloom_clear(Self)
       IN  /\ bits' = f.bits
           /\ tracker' = f.tracker
    /\ last' = [op |-> "clear", item |-> NoItem, ret |-> FALSE]
    /\ inserted' = {}
    /\ insert_calls' = 0
    /\ cleared' = TRUE
    /\ dropped' = IF cleared THEN dropped ELSE inserted
    /\ UNCHANGED <<hash_strategy, params, phase, built, other, threads>>

Next ==
    \/ \E item \in Items : Insert(item)
    \/ \E item \in Items : Contains(item)
    \/ \E item \in Items : MayContain(item)
    \/ Clear

Spec == Init /\ [][Next]_vars

\* the state after PrecisionBloom::with_capacity(n, rate) has returned, for
\* the n and rate explored
InitWithCapacity ==
    \E n \in 1..MaxExpected, rate \in CapRateChoices :
        LET f == with_capacity(n, rate)
        IN  /\ ~f.panic
            /\ bits = f.bits
            /\ hash_strategy = f.hash_strategy
            /\ params = f.params
            /\ tracker = f.tracker
            /\ phase = "ok"
            /\ last = [op |-> "with_capacity", item |-> NoItem, ret |-> FALSE]
            /\ inserted = {}
            /\ insert_calls = 0
            /\ cleared = FALSE
            /\ dropped = {}
            /\ built = [op |-> "with_capacity", expected_items |-> n,
                        false_positive_rate |-> rate,
                        returned |-> from_item_count(n, rate)]
            /\ other = NoFilter
            /\ threads = NoThreads

SpecWithCapacity == InitWithCapacity /\ [][Next]_vars

\* ---------------------------------------------------- a filter and its clone

\* the clone as one value: its words are its own, or those it points at
OtherSelf ==
    [bits |-> [words |-> IF other.bits.at = "shared" THEN bits.words
                         ELSE other.bits.words,
               capacity |-> other.bits.capacity],
     hash_strategy |-> other.hash_strategy,
     params |-> other.params,
     tracker |-> other.tracker]

\* a &mut self method of the clone has left it as f: the words are written
\* where the clone's bit array keeps them
StoreOther(f) ==
    /\ other' = [other EXCEPT !.tracker = f.tracker,
                              !.bits.words = IF other.bits.at = "own"
                                             THEN f.bits.words ELSE @]
    /\ bits' = IF other.bits.at = "shared"
               THEN [bits EXCEPT !.words = f.bits.words] ELSE bits

\* let filter2 = filter1.clone()
Clone ==
    /\ phase = "ok"
    /\ other = NoFilter
    /\ other' = PrecisionBloom_clone(Self)
    /\ last' = [op |-> "clone", item |-> NoItem, ret |-> FALSE]
    /\ UNCHANGED <<bits, hash_strategy, params, tracker, phase, inserted, insert_calls,
                 cleared, dropped, built, threads>>

\* filter2.insert(item)
CloneInsert(item) ==
    /\ phase = "ok"
    /\ other # NoFilter
    /\ items_inserted(other.tracker) < MaxInserts
    /\ LET r == PrecisionBloom_insert(OtherSelf, item)
       IN  /\ StoreOther(r.self)
           /\ phase' = IF r.panic THEN "panicked" ELSE "ok"
           /\ last' = [op |-> "clone_insert", item |-> item, ret |-> r.ret]
    /\ UNCHANGED <<hash_strategy, params, tracker, inserted, insert_calls, cleared,
                 dropped, built, threads>>

\* filter2.clear()
CloneClear ==
    /\ phase = "ok"
    /\ other # NoFilter
    /\ StoreOther(PrecisionBloom_clear(OtherSelf))
    /\ last' = [op |-> "clone_clear", item |-> NoItem, ret |-> FALSE]
    /\ UNCHANGED <<hash_strategy, params, tracker, phase, inserted, insert_calls,
                 cleared, dropped, built, threads>>

\* the filters cloned: those with the most bits (two words), the most hashes
\* and the largest capacity
InitClone ==
    /\ Init
    /\ params.num_hashes = MaxHashes
    /\ params.expected_items = MaxExpected
    /\ \A m \in NumBitsChoices : params.num_bits >= m

NextClone ==
    \/ \E item \in Items : Insert(item)
    \/ Clear
    \/ Clone
    \/ \E item \in Items : CloneInsert(item)
    \/ CloneClear

SpecClone == InitClone /\ [][NextClone]_vars

\* ------------------------------------------------- the bit array on its own

\* the words, capacities and indices handed to the bit array
WordChoices == {{}, {0}, {1, WordBits - 1}, 0..(WordBits - 1)}
WordsChoices ==
    {<<>>} \cup {<<a>> : a \in WordChoices} \cup {<<a, b>> : a, b \in WordChoices}
CapacityChoices == {0, 1, WordBits, WordBits + 6, UsizeMax - 63, UsizeMax}
IndexChoices ==
    {0, 1, WordBits - 1, WordBits, WordBits + 5, WordBits + 6, UsizeMax}

\* nothing has been constructed
Unbuilt ==
    /\ bits = NoBits
    /\ hash_strategy = NoStrategy
    /\ params = NoParams
    /\ tracker = NoTracker
    /\ phase = "start"
    /\ last = [op |-> "none", ret |-> FALSE]
    /\ inserted = {}
    /\ insert_calls = 0
    /\ cleared = FALSE
    /\ dropped = {}
    /\ built = [op |-> "none"]
    /\ other = NoFilter
    /\ threads = NoThreads

\* overflow_checks is the build: TRUE panics on an arithmetic overflow (the
\* dev profile), FALSE wraps (the release profile)
BitArrayNew(cap, overflow_checks) ==
    /\ phase = "start"
    /\ LET r == BitArray_new(cap)
           fails == r.panic \/ (r.overflow /\ overflow_checks)
       IN  /\ phase' = IF fails THEN "panicked" ELSE "ok"
           /\ bits' = IF fails THEN bits ELSE r.bits
    /\ built' = [op |-> "BitArray::new", capacity |-> cap,
                 overflow_checks |-> overflow_checks]
    /\ last' = [op |-> "new", ret |-> FALSE]
    /\ UNCHANGED <<hash_strategy, params, tracker, inserted, insert_calls, cleared,
                 dropped, other, threads>>

BitArrayFromWords(words, cap, overflow_checks) ==
    /\ phase = "start"
    /\ LET r == BitArray_from_words(words, cap)
           fails == r.panic \/ (r.overflow /\ overflow_checks)
       IN  /\ phase' = IF fails THEN "panicked" ELSE "ok"
           /\ bits' = IF fails THEN bits ELSE r.bits
    /\ built' = [op |-> "BitArray::from_words", words |-> words, capacity |-> cap,
                 overflow_checks |-> overflow_checks]
    /\ last' = [op |-> "from_words", ret |-> FALSE]
    /\ UNCHANGED <<hash_strategy, params, tracker, inserted, insert_calls, cleared,
                 dropped, other, threads>>

BitArraySet(index) ==
    /\ phase = "ok"
    /\ LET r == BitArray_set(bits, index)
       IN  /\ phase' = IF r.panic THEN "panicked" ELSE "ok"
           /\ bits' = r.bits
    /\ last' = [op |-> "set", index |-> index, ret |-> FALSE]
    /\ UNCHANGED <<hash_strategy, params, tracker, inserted, insert_calls, cleared,
                 dropped, built, other, threads>>

BitArrayGet(index) ==
    /\ phase = "ok"
    /\ LET r == BitArray_get(bits, index)
       IN  /\ phase' = IF r.panic THEN "panicked" ELSE "ok"
           /\ last' = [op |-> "get", index |-> index, ret |-> r.value]
    /\ UNCHANGED <<bits, hash_strategy, params, tracker, inserted, insert_calls,
                 cleared, dropped, built, other, threads>>

BitArrayClear ==
    /\ phase = "ok"
    /\ bits' = BitArray_clear(bits)
    /\ last' = [op |-> "clear", ret |-> FALSE]
    /\ UNCHANGED <<hash_strategy, params, tracker, phase, inserted, insert_calls,
                 cleared, dropped, built, other, threads>>

NextBitArray ==
    \/ \E cap \in CapacityChoices, overflow_checks \in BOOLEAN :
          BitArrayNew(cap, overflow_checks)
    \/ \E words \in WordsChoices, cap \in CapacityChoices, overflow_checks \in BOOLEAN :
          BitArrayFromWords(words, cap, overflow_checks)
    \/ \E index \in IndexChoices : BitArraySet(index)
    \/ \E index \in IndexChoices : BitArrayGet(index)
    \/ BitArrayClear

SpecBitArray == Unbuilt /\ [][NextBitArray]_vars

\* --------------------------------------------------------- construction

\* the rates, parameters and sizes handed to the constructors
RateInputs ==
    {NaN, F64(0 - FprOne \div 2), F64(0), F64(10000), F64(FprOne \div 2), F64(FprOne),
     F64(FprOne + FprOne \div 2)}
NewInputs ==
    {BloomParameters(m, k, n, r) :
        m \in {0, 3, WordBits}, k \in {0, 1, MaxHashes}, n \in {0, 1, MaxExpected},
        r \in RateInputs}
BitCountInputs == {0, 1, 3, WordBits, 2000}
ItemCountInputs == {0, 1, MaxExpected, 40, 1000}

\* the filter a constructor has returned becomes the state; a constructor
\* that panics returns nothing
Built(f) ==
    /\ phase' = IF f.panic THEN "panicked" ELSE "ok"
    /\ bits' = IF f.panic THEN bits ELSE f.bits
    /\ hash_strategy' = IF f.panic THEN hash_strategy ELSE f.hash_strategy
    /\ params' = IF f.panic THEN params ELSE f.params
    /\ tracker' = IF f.panic THEN tracker ELSE f.tracker
    /\ UNCHANGED <<inserted, insert_calls, cleared, dropped, other, threads>>

\* PrecisionBloom::new(p)
New(p) ==
    /\ phase = "start"
    /\ Built(PrecisionBloom_new(p))
    /\ built' = [op |-> "new", params |-> p]
    /\ last' = [op |-> "new", ret |-> FALSE]

\* PrecisionBloom::with_capacity(n, rate)
WithCapacity(n, rate) ==
    /\ phase = "start"
    /\ Built(with_capacity(n, rate))
    /\ built' = [op |-> "with_capacity", expected_items |-> n,
                 false_positive_rate |-> rate, returned |-> from_item_count(n, rate)]
    /\ last' = [op |-> "with_capacity", ret |-> FALSE]

\* PrecisionBloom::new(BloomParameters::from_bit_count(m, n))
FromBitCount(m, n) ==
    /\ phase = "start"
    /\ LET p == from_bit_count(m, n)
       IN  /\ Built(IF p.panic THEN [panic |-> TRUE] ELSE PrecisionBloom_new(p.params))
           /\ built' = [op |-> "from_bit_count", num_bits |-> m, expected_items |-> n,
                        returned |-> p]
    /\ last' = [op |-> "from_bit_count", ret |-> FALSE]

NextBuild ==
    \/ \E p \in NewInputs : New(p)
    \/ \E n \in ItemCountInputs, rate \in RateInputs : WithCapacity(n, rate)
    \/ \E m \in BitCountInputs, n \in ItemCountInputs : FromBitCount(m, n)

SpecBuild == Unbuilt /\ [][NextBuild]_vars

\* ----------------------------------- the operations step by step, two callers

\* The operations of one filter run one memory access at a time by the
\* callers of Threads. insert, contains and clear are the code of filter.rs;
\* a compound assignment (items_inserted += 1, words[i] |= mask) is a read
\* of the location followed by a write of it, and nothing orders the steps of
\* one caller with those of the other.
StepParams == BloomParameters(WordBits + 6, MaxHashes, MaxExpected, F64(10000))

\* the locals of a caller that has not called anything
Idle ==
    [pc |-> "idle", op |-> "none", item |-> NoItem, indices |-> <<>>, n |-> 0,
     word |-> {}, count |-> 0, was_absent |-> FALSE, ret |-> FALSE, visited |-> 0,
     raced |-> FALSE]

\* caller t is inside an operation
Busy(t) == threads[t].pc \notin {"idle", "done"}

\* caller t enters an operation with the locals given; raced records, for t
\* and for the callers inside an operation at that moment, that their
\* operations overlap
Enter(t, locals) ==
    [u \in Threads |->
        IF u = t THEN [locals EXCEPT !.raced = \E v \in Threads \ {t} : Busy(v)]
        ELSE IF Busy(u) THEN [threads[u] EXCEPT !.raced = TRUE]
        ELSE threads[u]]

\* caller t returns ret
Return(t, ret) ==
    [threads EXCEPT ![t] = [@ EXCEPT !.pc = "done", !.ret = ret, !.n = 0,
                                     !.indices = <<>>, !.word = {}, !.count = 0,
                                     !.was_absent = FALSE]]

\* the filter PrecisionBloom::new(StepParams) has returned, and no caller has
\* called anything
InitSteps ==
    LET f == PrecisionBloom_new(StepParams)
    IN  /\ ~f.panic
        /\ bits = f.bits
        /\ hash_strategy = f.hash_strategy
        /\ params = f.params
        /\ tracker = f.tracker
        /\ phase = "ok"
        /\ last = [op |-> "new", item |-> NoItem, ret |-> FALSE]
        /\ inserted = {}
        /\ insert_calls = 0
        /\ cleared = FALSE
        /\ dropped = {}
        /\ built = [op |-> "new", params |-> StepParams]
        /\ other = NoFilter
        /\ threads = [t \in Threads |-> Idle]

\* filter.insert(item) is called
CallInsert(t, item) ==
    /\ threads[t].pc = "idle"
    /\ threads' = Enter(t, [Idle EXCEPT !.pc = "record_insert", !.op = "insert",
                                        !.item = item])
    /\ UNCHANGED <<bits, hash_strategy, params, tracker, phase, last, inserted,
                 insert_calls, cleared, dropped, built, other>>

\* self.items_inserted += 1: the read
RecordInsertRead(t) ==
    /\ threads[t].pc = "record_insert"
    /\ threads' = [threads EXCEPT ![t].pc = "record_insert_write",
                                  ![t].count = items_inserted(tracker)]
    /\ UNCHANGED <<bits, hash_strategy, params, tracker, phase, last, inserted,
                 insert_calls, cleared, dropped, built, other>>

\* self.items_inserted += 1: the write of the value read plus one; then
\* hash_indices
RecordInsertWrite(t) ==
    /\ threads[t].pc = "record_insert_write"
    /\ tracker' = record_insert([tracker EXCEPT !.items_inserted = threads[t].count])
    /\ threads' = [threads EXCEPT ![t].pc = "for",
                                  ![t].count = 0,
                                  ![t].indices = hash_indices(hash_strategy, threads[t].item),
                                  ![t].n = 1]
    /\ UNCHANGED <<bits, hash_strategy, params, phase, last, inserted, insert_calls,
                 cleared, dropped, built, other>>

\* for &index in &indices { if !self.bits.get(index) { was_absent = true; .. } }
\* and, after the last index, the return of was_absent
ForGet(t) ==
    /\ threads[t].pc = "for"
    /\ LET l == threads[t]
       IN  threads' =
              IF l.n > Len(l.indices) THEN Return(t, l.was_absent)
              ELSE IF BitArray_get(bits, l.indices[l.n]).value
                   THEN [threads EXCEPT ![t].n = @ + 1, ![t].visited = @ + 1]
              ELSE [threads EXCEPT ![t].pc = "set", ![t].was_absent = TRUE,
                                   ![t].visited = @ + 1]
    /\ UNCHANGED <<bits, hash_strategy, params, tracker, phase, last, inserted,
                 insert_calls, cleared, dropped, built, other>>

\* self.words[word_index] |= 1u64 << bit_index: the read of the word
SetRead(t) ==
    /\ threads[t].pc = "set"
    /\ LET l == threads[t]
           word_index == l.indices[l.n] \div WordBits
       IN  threads' = [threads EXCEPT ![t].pc = "set_write",
                                      ![t].word = bits.words[word_index + 1]]
    /\ UNCHANGED <<bits, hash_strategy, params, tracker, phase, last, inserted,
                 insert_calls, cleared, dropped, built, other>>

\* self.words[word_index] |= 1u64 << bit_index: the write of the word read,
\* with the bit set
SetWrite(t) ==
    /\ threads[t].pc = "set_write"
    /\ LET l == threads[t]
           word_index == l.indices[l.n] \div WordBits
           read == [bits EXCEPT !.words[word_index + 1] = l.word]
       IN  bits' = [bits EXCEPT !.words[word_index + 1] =
                       BitArray_set(read, l.indices[l.n]).bits.words[word_index + 1]]
    /\ threads' = [threads EXCEPT ![t].pc = "for", ![t].word = {}, ![t].n = @ + 1]
    /\ UNCHANGED <<hash_strategy, params, tracker, phase, last, inserted, insert_calls,
                 cleared, dropped, built, other>>

\* filter.contains(item) is called: hash_indices
CallContains(t, item) ==
    /\ threads[t].pc = "idle"
    /\ threads' = Enter(t, [Idle EXCEPT !.pc = "all", !.op = "contains", !.item = item,
                                        !.indices = hash_indices(hash_strategy, item),
                                        !.n = 1])
    /\ UNCHANGED <<bits, hash_strategy, params, tracker, phase, last, inserted,
                 insert_calls, cleared, dropped, built, other>>

\* a contains that tries a position again when it finds the bit set
AllGet_retry(t) ==
    /\ threads[t].pc = "all"
    /\ LET l == threads[t]
       IN  threads' =
              IF l.n > Len(l.indices) THEN Return(t, TRUE)
              ELSE IF BitArray_get(bits, l.indices[l.n]).value THEN threads
              ELSE [Return(t, FALSE) EXCEPT ![t].visited = @ + 1]
    /\ UNCHANGED <<bits, hash_strategy, params, tracker, phase, last, inserted,
                 insert_calls, cleared, dropped, built, other>>

\* indices.iter().all(|&index| self.bits.get(index)): one position, and the
\* return at the first unset position or after the last one
AllGet(t) ==
    /\ threads[t].pc = "all"
    /\ LET l == threads[t]
       IN  threads' =
              IF l.n > Len(l.indices) THEN Return(t, TRUE)
              ELSE IF BitArray_get(bits, l.indices[l.n]).value
                   THEN [threads EXCEPT ![t].n = @ + 1, ![t].visited = @ + 1]
              ELSE [Return(t, FALSE) EXCEPT ![t].visited = @ + 1]
    /\ UNCHANGED <<bits, hash_strategy, params, tracker, phase, last, inserted,
                 insert_calls, cleared, dropped, built, other>>

\* filter.clear() is called
CallClear(t) ==
    /\ threads[t].pc = "idle"
    /\ threads' = Enter(t, [Idle EXCEPT !.pc = "clear", !.op = "clear"])
    /\ UNCHANGED <<bits, hash_strategy, params, tracker, phase, last, inserted,
                 insert_calls, cleared, dropped, built, other>>

\* self.bits.clear()
ClearBits(t) ==
    /\ threads[t].pc = "clear"
    /\ bits' = BitArray_clear(bits)
    /\ threads' = [threads EXCEPT ![t].pc = "reset"]
    /\ UNCHANGED <<hash_strategy, params, tracker, phase, last, inserted, insert_calls,
                 cleared, dropped, built, other>>

\* self.tracker.reset(), and the return
ClearReset(t) ==
    /\ threads[t].pc = "reset"
    /\ tracker' = AccuracyTracker_reset(tracker)
    /\ threads' = Return(t, FALSE)
    /\ UNCHANGED <<bits, hash_strategy, params, phase, last, inserted, insert_calls,
                 cleared, dropped, built, other>>

\* the next step of the operation caller t is in
ThreadStep(t) ==
    \/ RecordInsertRead(t)
    \/ RecordInsertWrite(t)
    \/ ForGet(t)
    \/ SetRead(t)
    \/ SetWrite(t)
    \/ AllGet(t)
    \/ ClearBits(t)
    \/ ClearReset(t)

NextSteps ==
    \/ \E t \in Threads, item \in Items : CallInsert(t, item)
    \/ \E t \in Threads, item \in Items : CallContains(t, item)
    \/ \E t \in Threads : CallClear(t)
    \/ \E t \in Threads : ThreadStep(t)

SpecSteps == InitSteps /\ [][NextSteps]_vars

\* every caller inside an operation gets to take its next step
SpecStepsFair == SpecSteps /\ \A t \in Threads : WF_vars(ThreadStep(t))

\* ------------------------------------------------------------- properties

\* the indices of the bits of b that are 1
SetBits(b) ==
    UNION {{(w - 1) * WordBits + o : o \in b.words[w]} : w \in DOMAIN b.words}

\* the positions the index generator gives an item, as a set
Positions(item) ==
    LET indices == hash_indices(hash_strategy, item)
    IN  {indices[n] : n \in 1..Len(indices)}

IsQuery(op) == op \in {"contains", "may_contain"}

\* 2^e modulo m
RECURSIVE Pow2Mod(_, _)
Pow2Mod(e, m) == IF e = 0 THEN 1 % m ELSE (2 * Pow2Mod(e - 1, m)) % m

\* a hash value h of the items explored as top * 2^63 + s modulo 2^64, with s
\* small: u64::MAX is -1, 2^63 is 2^63 + 0, the others are their own value
Residue(h) ==
    IF h = U64Max THEN [top |-> 0, s |-> 0 - 1]
    ELSE IF h = U64Pow63 THEN [top |-> 1, s |-> 0]
    ELSE [top |-> 0, s |-> h[1] + LimbBase * h[2]]

\* ((h1 + i * h2) mod 2^64) mod m, by arithmetic on the integers: the sum is
\* top * 2^63 + s modulo 2^64, and its representative in [0, 2^64) is
\* 2^63 + s when top is 1, s when s >= 0, and 2^64 + s otherwise
ExpectedIndex(item, i, m) ==
    LET a == Residue(item.h1)
        b == Residue(item.h2)
        top == (a.top + i * b.top) % 2
        s == a.s + i * b.s
        lift == IF s < 0 THEN m * (0 - s) ELSE 0
    IN  IF top = 1 THEN (Pow2Mod(63, m) + s + lift) % m
        ELSE IF s >= 0 THEN s % m
        ELSE (Pow2Mod(64, m) + s + lift) % m

\* 0 < r < 1
StrictlyInside(r) == f64_gt(r, F64(0)) /\ f64_lt(r, F64(FprOne))

\* no part of a filter exists
NothingCreated ==
    /\ bits = NoBits
    /\ hash_strategy = NoStrategy
    /\ params = NoParams
    /\ tracker = NoTracker

\* C1: no false negatives. In every reachable state, contains(x) is true for
\* every item x inserted since construction or the last clear, and a contains
\* call made on such an item returned true.
C1_NoFalseNegatives ==
    /\ \A x \in inserted :
          LET r == PrecisionBloom_contains(Self, x) IN ~r.panic /\ r.value
    /\ (last.op = "contains" /\ last.item \in inserted) => last.ret

\* C1 witness: two items are in the filter and a contains call on one of them
\* has returned true
C1_Witness ==
    /\ Cardinality(inserted) >= 2
    /\ last.op = "contains"
    /\ last.item \in inserted
    /\ last.ret

\* C2: the bit array is monotonic between clears. Every step other than a
\* clear keeps every set bit set.
C2_BitsMonotonic ==
    [][last'.op # "clear" => SetBits(bits) \subseteq SetBits(bits')]_vars

\* C2 witness: after two inserts that set different bits, and a later contains
\* call, the bits of both are set
C2_Witness ==
    /\ insert_calls >= 2
    /\ last.op = "contains"
    /\ \E x, y \in inserted :
          /\ Positions(x) \cap Positions(y) = {}
          /\ Positions(x) \cup Positions(y) \subseteq SetBits(bits)

\* C3: contains(item) returns true if and only if all the positions the index
\* generator produces for the item are set in the bit array.
C3_ContainsIffAllSet ==
    last.op = "contains" =>
        (last.ret <=> \A n \in 1..hash_strategy.num_hashes :
                          hash_indices(hash_strategy, last.item)[n] \in SetBits(bits))

\* C3 witness: contains has returned false for an item with one position set
\* and another unset
C3_Witness ==
    /\ last.op = "contains"
    /\ ~last.ret
    /\ Positions(last.item) \cap SetBits(bits) # {}
    /\ Positions(last.item) \ SetBits(bits) # {}

\* C4: after clear() returns, and until an item is inserted again, no bit is
\* set (saturation is 0), len() is 0, is_empty() is true, both counters are 0,
\* contains(x) is false for every item x, and every query made has returned
\* false.
C4_ClearEmpties ==
    cleared =>
        /\ saturation(Self).num = 0
        /\ len(Self) = 0
        /\ is_empty(Self)
        /\ queries_performed(tracker) = 0
        /\ \A x \in Items :
              LET r == PrecisionBloom_contains(Self, x) IN ~r.panic /\ ~r.value
        /\ IsQuery(last.op) => ~last.ret

\* C4 witness: after a clear that removed items, contains has been called on
\* one of them and has returned false
C4_Witness ==
    /\ cleared
    /\ last.op = "contains"
    /\ last.item \in dropped
    /\ ~last.ret

\* C5: len() equals the number of insert calls since construction or the last
\* clear, duplicates and inserts that set no bit included, and no step other
\* than a clear decreases it.
C5_LenCountsInserts ==
    /\ [](len(Self) = insert_calls)
    /\ [][last'.op # "clear" => items_inserted(tracker') >= items_inserted(tracker)]_vars

\* C5 witness: an item was inserted a second time, the call set no bit, and
\* len() counts it
C5_Witness ==
    /\ last.op = "insert"
    /\ ~last.ret
    /\ insert_calls > Cardinality(inserted)
    /\ len(Self) = insert_calls

\* C6: insert(item) returns true exactly when at least one of the item's
\* positions was unset immediately before the call, that is exactly when
\* contains(item) was false immediately before the call.
C6_InsertReturn ==
    [][last'.op = "insert" =>
          /\ last'.ret <=> (Positions(last'.item) \ SetBits(bits) # {})
          /\ last'.ret <=> ~PrecisionBloom_contains(Self, last'.item).value]_vars

\* C6 witness: insert has returned false for an item never inserted before,
\* whose positions other items had set
C6_Witness ==
    /\ last.op = "insert"
    /\ ~last.ret
    /\ insert_calls = Cardinality(inserted)

\* C7: an insert into a filter whose bit array is all zero returns true, for
\* every item.
C7_FirstInsertTrue ==
    [][(SetBits(bits) = {} /\ last'.op = "insert") => last'.ret]_vars

\* C7 witness: the first insert after a construction or a clear has returned
\* true, for an item whose positions repeat
C7_Witness ==
    /\ last.op = "insert"
    /\ insert_calls = 1
    /\ last.ret
    /\ Cardinality(Positions(last.item)) < hash_strategy.num_hashes

\* C8: is_overfilled() is true if and only if the insert calls since
\* construction or the last clear are more than expected_items.
C8_OverfilledIff ==
    is_overfilled(Self) <=> insert_calls > params.expected_items

\* C8 witness: the (expected_items + 1)-th insert has made the filter overfilled
C8_Witness ==
    /\ last.op = "insert"
    /\ insert_calls = params.expected_items + 1
    /\ is_overfilled(Self)

\* C9: overfilling is never an error. No insert or contains call fails, none
\* would fail in the state reached, and in an overfilled filter contains is
\* true for every item inserted.
C9_OverfillNeverFails ==
    /\ phase = "ok"
    /\ \A x \in Items : ~PrecisionBloom_contains(Self, x).panic
    /\ \A x \in Items : ~PrecisionBloom_insert(Self, x).panic
    /\ is_overfilled(Self) =>
          \A x \in inserted : PrecisionBloom_contains(Self, x).value

\* C9 witness: an insert made while the filter was already overfilled has
\* returned
C9_Witness ==
    /\ last.op = "insert"
    /\ insert_calls >= params.expected_items + 2
    /\ phase = "ok"

\* C10: every contains or may_contain call increases queries_performed by
\* exactly one, and every insert call increases items_inserted by exactly one.
C10_QueriesRecorded ==
    [][/\ IsQuery(last'.op) =>
             queries_performed(tracker') = queries_performed(tracker) + 1
       /\ last'.op = "insert" =>
             items_inserted(tracker') = items_inserted(tracker) + 1]_vars

\* C12: may_contain(item) returns what contains(item) returns, for every item
\* in every reachable state.
C12_MayContainIsContains ==
    /\ \A x \in Items :
          PrecisionBloom_may_contain(Self, x) = contains_all(bits, hash_indices(hash_strategy, x), 1)
    /\ last.op = "may_contain" =>
          last.ret = contains_all(bits, hash_indices(hash_strategy, last.item), 1).value

\* C12 witness: may_contain has returned false for an item of which some
\* position is set
C12_Witness ==
    /\ last.op = "may_contain"
    /\ ~last.ret
    /\ Positions(last.item) \cap SetBits(bits) # {}

\* C14: saturation monotonicity. An insert never lowers the number of set
\* bits, and so never lowers saturation().
C14_SaturationMonotonic ==
    [][last'.op = "insert" =>
          /\ BitArray_count_ones(bits') >= BitArray_count_ones(bits)
          /\ BitArray_saturation(bits').num >= BitArray_saturation(bits).num
          /\ BitArray_saturation(bits').den = BitArray_saturation(bits).den]_vars

\* C14 witness: a second insert has set new bits in a filter that already
\* had some
C14_Witness ==
    /\ last.op = "insert"
    /\ last.ret
    /\ insert_calls >= 2
    /\ BitArray_count_ones(bits) > Cardinality(Positions(last.item))

\* C19: a freshly constructed filter is empty. Until the first insert or
\* clear, len() is 0, is_empty() is true, saturation() is 0, is_overfilled()
\* is false, every bit is unset and contains(x) is false for every item x.
C19_FreshIsEmpty ==
    (insert_calls = 0 /\ ~cleared) =>
        /\ len(Self) = 0
        /\ is_empty(Self)
        /\ saturation(Self).num = 0
        /\ ~is_overfilled(Self)
        /\ \A i \in 0..(bits.capacity - 1) : ~BitArray_get(bits, i).value
        /\ \A x \in Items : ~PrecisionBloom_contains(Self, x).value
        /\ IsQuery(last.op) => ~last.ret

\* C19 witness: contains has been called on a filter just constructed and has
\* returned false
C19_Witness ==
    /\ insert_calls = 0
    /\ ~cleared
    /\ last.op = "contains"
    /\ ~last.ret

\* C20: clear() restores the initial empty state. Right after a clear the bit
\* array, the hash strategy, the parameters and the tracker equal those of a
\* filter newly constructed with the same parameters, and a second clear
\* changes nothing.
C20_ClearRestoresInitial ==
    last.op = "clear" =>
        LET f == PrecisionBloom_new(params)
        IN  /\ ~f.panic
            /\ bits = f.bits
            /\ hash_strategy = f.hash_strategy
            /\ params = f.params
            /\ tracker = f.tracker
            /\ PrecisionBloom_clear(Self) = Self

\* C20 witness: a clear has removed items that had bits in the second word
C20_Witness ==
    /\ last.op = "clear"
    /\ dropped # {}
    /\ \E x \in dropped : \E i \in Positions(x) : i >= WordBits

\* C15: for every BitArray, built by new or by from_words and after any
\* set and clear calls, saturation() is the number of indices i in
\* [0, capacity) for which get(i) is true, divided by capacity, and so lies
\* in [0, 1].
C15_SaturationCountsGets ==
    phase = "ok" =>
        LET s == BitArray_saturation(bits)
            read == {i \in 0..(Len(bits.words) * WordBits - 1) :
                        BitArray_get(bits, i).value}
        IN  /\ s.den = bits.capacity
            /\ s.num = Cardinality(read)
            /\ usize_lt(0, s.den)
            /\ ~usize_lt(s.den, s.num)

\* C16: invalid configuration is rejected at construction. with_capacity fails
\* when expected_items is 0 or the rate is not strictly between 0 and 1; new
\* fails when the parameters have num_bits = 0, num_hashes = 0,
\* expected_items = 0 or a rate outside (0, 1); a failed construction has
\* created no bit array, hash strategy or tracker.
C16_InvalidRejected ==
    /\ (/\ built.op = "with_capacity"
        /\ built.expected_items = 0 \/ ~StrictlyInside(built.false_positive_rate))
          => (phase = "panicked" /\ NothingCreated)
    /\ (/\ built.op = "new"
        /\ \/ built.params.num_bits = 0
           \/ built.params.num_hashes = 0
           \/ built.params.expected_items = 0
           \/ ~StrictlyInside(built.params.false_positive_rate))
          => (phase = "panicked" /\ NothingCreated)

\* C17: the parameters from_item_count and from_bit_count return satisfy
\* num_bits > 0, num_hashes >= 1, expected_items > 0 and
\* 0 < false_positive_rate < 1, validate() succeeds on them and new accepts
\* them.
C17_ConstructedParametersValid ==
    (built.op \in {"with_capacity", "from_bit_count"} /\ ~built.returned.panic) =>
        LET p == built.returned.params
        IN  /\ p.num_bits > 0
            /\ p.num_hashes >= 1
            /\ p.expected_items > 0
            /\ StrictlyInside(p.false_positive_rate)
            /\ validate(p) = "Ok"
            /\ phase = "ok"

\* C13: the parameters are immutable after construction. After any insert,
\* contains and clear calls, capacity(), num_bits(), num_hashes() and
\* false_positive_rate() return what they returned right after construction,
\* and capacity() and false_positive_rate() are the expected_items and the
\* rate passed to with_capacity.
C13_ParametersImmutable ==
    /\ [](LET f == with_capacity(built.expected_items, built.false_positive_rate)
          IN  /\ capacity(Self) = capacity(f)
              /\ num_bits(Self) = num_bits(f)
              /\ num_hashes(Self) = num_hashes(f)
              /\ false_positive_rate(Self) = false_positive_rate(f)
              /\ capacity(Self) = built.expected_items
              /\ false_positive_rate(Self) = built.false_positive_rate)
    /\ [][/\ capacity(Self)' = capacity(Self)
          /\ num_bits(Self)' = num_bits(Self)
          /\ num_hashes(Self)' = num_hashes(Self)
          /\ false_positive_rate(Self)' = false_positive_rate(Self)]_vars

\* C13 witness: the filter was filled beyond its capacity and then cleared, and
\* still reports the capacity and the rate it was built with
C13_Witness ==
    /\ built.op = "with_capacity"
    /\ last.op = "clear"
    /\ Cardinality(dropped) > built.expected_items
    /\ capacity(Self) = built.expected_items
    /\ false_positive_rate(Self) = built.false_positive_rate

\* C11: clone independence. Right after filter2 = filter1.clone() both answer
\* contains identically for every item; from then on an insert or a clear on
\* one of them changes neither the bits, nor len(), nor a contains answer of
\* the other.
C11_CloneIndependent ==
    /\ [](last.op = "clone" =>
             /\ len(OtherSelf) = len(Self)
             /\ \A x \in Items :
                   PrecisionBloom_contains(OtherSelf, x) = PrecisionBloom_contains(Self, x))
    /\ [][/\ (other # NoFilter /\ last'.op \in {"insert", "clear"}) =>
                /\ SetBits(OtherSelf.bits)' = SetBits(OtherSelf.bits)
                /\ len(OtherSelf)' = len(OtherSelf)
                /\ \A x \in Items :
                      PrecisionBloom_contains(OtherSelf, x)' =
                          PrecisionBloom_contains(OtherSelf, x)
          /\ last'.op \in {"clone_insert", "clone_clear"} =>
                /\ SetBits(bits)' = SetBits(bits)
                /\ len(Self)' = len(Self)
                /\ \A x \in Items :
                      PrecisionBloom_contains(Self, x)' = PrecisionBloom_contains(Self, x)]_vars

\* C11 witness: the original held an item when it was cloned, an insert into
\* the clone has set bits, and the clone now contains an item the original
\* does not
C11_Witness ==
    /\ other # NoFilter
    /\ last.op = "clone_insert"
    /\ last.ret
    /\ inserted # {}
    /\ \E x \in Items :
          /\ PrecisionBloom_contains(OtherSelf, x).value
          /\ ~PrecisionBloom_contains(Self, x).value

\* C21: parameter correctness. from_item_count(1000, 0.01), and so
\* with_capacity(1000, 0.01), yields 9000 < num_bits < 10000 and
\* 6 <= num_hashes <= 8; for every n and p accepted, num_bits is the least
\* integer m with m * ln(2)^2 >= -n * ln(p) and num_hashes is the least
\* integer k >= 1 with k * n >= m * ln 2.
C21_OptimalParameters ==
    (built.op = "with_capacity" /\ ~built.returned.panic) =>
        LET n == built.expected_items
            p == built.false_positive_rate
            m == built.returned.params.num_bits
            k == built.returned.params.num_hashes
        IN  /\ (m - 1) * Ln2Squared < n * NegLn(p)
            /\ n * NegLn(p) <= m * Ln2Squared
            /\ k >= 1
            /\ m * Ln2 <= k * n * LnScale
            /\ (k - 1) * n * LnScale < m * Ln2
            /\ phase = "ok"
            /\ num_bits(Self) = m
            /\ num_hashes(Self) = k
            /\ (n = 1000 /\ p = F64(10000)) =>
                  (m > 9000 /\ m < 10000 /\ k >= 6 /\ k <= 8)

\* C21 witness: with_capacity(1000, 0.01) has built a filter of 9586 bits and
\* 7 hashes
C21_Witness ==
    /\ built.op = "with_capacity"
    /\ built.expected_items = 1000
    /\ built.false_positive_rate = F64(10000)
    /\ phase = "ok"
    /\ num_bits(Self) = 9586
    /\ num_hashes(Self) = 7

\* C22: in every reachable state the set bits are exactly the union of the
\* positions of the items inserted since construction or the last clear; so
\* contains(y) is true for a never-inserted y only if each of y's positions
\* was set by the insertion of another item.
C22_BitsAreInsertedPositions ==
    /\ SetBits(bits) = UNION {Positions(x) : x \in inserted}
    /\ \A y \in Items \ inserted :
          PrecisionBloom_contains(Self, y).value =>
              Positions(y) \subseteq UNION {Positions(x) : x \in inserted \ {y}}
    /\ (last.op = "contains" /\ last.ret /\ last.item \notin inserted) =>
          Positions(last.item) \subseteq UNION {Positions(x) : x \in inserted}

\* C22 witness: contains has returned true for an item never inserted, whose
\* positions two other items had set between them
C22_Witness ==
    /\ last.op = "contains"
    /\ last.ret
    /\ last.item \notin inserted
    /\ \A x \in inserted : ~(Positions(last.item) \subseteq Positions(x))

\* C23: insert(item) sets the bits at the item's positions and no other,
\* clears none, and adds one to items_inserted; queries_performed, the
\* parameters, the hash strategy and the capacity are left as they were.
C23_InsertFrame ==
    [][last'.op = "insert" =>
          /\ SetBits(bits') = SetBits(bits) \cup Positions(last'.item)
          /\ bits'.capacity = bits.capacity
          /\ Len(bits'.words) = Len(bits.words)
          /\ items_inserted(tracker') = items_inserted(tracker) + 1
          /\ queries_performed(tracker') = queries_performed(tracker)
          /\ tracker'.params = tracker.params
          /\ params' = params
          /\ hash_strategy' = hash_strategy]_vars

\* C23 witness: an insert has set some of its item's bits, others of them were
\* set before, and bits of other items are still set
C23_Witness ==
    /\ last.op = "insert"
    /\ last.ret
    /\ insert_calls >= 2
    /\ SetBits(bits) \ Positions(last.item) # {}
    /\ \E x \in inserted \ {last.item} : Positions(x) \cap Positions(last.item) # {}

\* C24: hash_indices returns exactly num_hashes positions, each in
\* [0, num_bits), and the i-th (from 0) is ((h1 + i * h2) mod 2^64) mod
\* num_bits: the product and the sum wrap around at 64 bits and never fail.
C24_DoubleHashing ==
    /\ phase = "ok"
    /\ \A x \in Items :
          LET indices == hash_indices(hash_strategy, x)
          IN  /\ Len(indices) = hash_strategy.num_hashes
              /\ \A n \in 1..Len(indices) :
                    /\ indices[n] >= 0
                    /\ indices[n] < hash_strategy.num_bits
                    /\ indices[n] = ExpectedIndex(x, n - 1, hash_strategy.num_bits)

\* C24 witness: an item whose two hashes are u64::MAX, so that every product
\* and sum wraps, has been inserted with the most hashes into a filter whose
\* size does not divide 2^64
C24_Witness ==
    /\ last.op = "insert"
    /\ last.item = Item(U64Max, U64Max)
    /\ hash_strategy.num_hashes = MaxHashes
    /\ Pow2Mod(WordBits, hash_strategy.num_bits) # 0
    /\ phase = "ok"

C26_IndicesInBounds ==
    /\ hash_strategy.num_bits = bits.capacity
    /\ \A x \in Items :
          LET indices == hash_indices(hash_strategy, x)
          IN  \A n \in 1..Len(indices) :
                 /\ indices[n] < bits.capacity
                 /\ ~BitArray_get(bits, indices[n]).panic
                 /\ ~BitArray_set(bits, indices[n]).panic
    /\ phase = "ok"

\* C26 witness: an insert has set the last bit of a bit array whose capacity
\* is not a multiple of the word size
C26_Witness ==
    /\ last.op = "insert"
    /\ bits.capacity % WordBits # 0
    /\ bits.capacity - 1 \in Positions(last.item)
    /\ bits.capacity - 1 \in SetBits(bits)
    /\ phase = "ok"

\* the indices at which the bit array is read: every bit of the stored words
\* and the indices handed to set and get
ReadIndices(b) == (0..(Len(b.words) * WordBits - 1)) \cup IndexChoices

\* C27: set(index) and get(index) fail whenever index >= capacity, also when
\* the index still lies inside the last stored word, and a set that fails
\* leaves every bit of the array as it was.
C27_OutOfBoundsFails ==
    /\ [](phase = "ok" =>
            \A index \in ReadIndices(bits) :
               ~usize_lt(index, bits.capacity) =>
                  /\ BitArray_get(bits, index).panic
                  /\ BitArray_set(bits, index).panic
                  /\ BitArray_set(bits, index).bits = bits)
    /\ [][(/\ phase = "ok"
           /\ last'.op \in {"set", "get"}
           /\ ~usize_lt(last'.index, bits.capacity))
             => (phase' = "panicked" /\ bits' = bits)]_vars

\* C27 witness: a set has failed at an index that is not below the capacity
\* but inside the last stored word, on an array with bits set
C27_Witness ==
    /\ phase = "panicked"
    /\ last.op = "set"
    /\ last.index >= 0
    /\ ~usize_lt(last.index, bits.capacity)
    /\ last.index < Len(bits.words) * WordBits
    /\ SetBits(bits) # {}

\* C28: for every index i < capacity, get(i) is true after set(i), a second
\* set(i) leaves the array unchanged, and set(i) changes no other bit. set(i)
\* returns for every i < capacity on an array whose capacity is below 2^63.
C28_SetThenGet ==
    [][(/\ phase = "ok"
        /\ last'.op = "set"
        /\ usize_lt(last'.index, bits.capacity))
          => /\ bits.capacity >= 0 => phase' = "ok"
             /\ phase' = "ok" =>
                   /\ BitArray_get(bits', last'.index) = [panic |-> FALSE, value |-> TRUE]
                   /\ BitArray_set(bits', last'.index) = [panic |-> FALSE, bits |-> bits']
                   /\ SetBits(bits') = SetBits(bits) \cup {last'.index}
                   /\ \A j \in ReadIndices(bits) \ {last'.index} :
                         BitArray_get(bits', j) = BitArray_get(bits, j)
                   /\ bits'.capacity = bits.capacity
                   /\ Len(bits'.words) = Len(bits.words)]_vars

\* C28 witness: a set in the second word of an array made by new has
\* returned, and a bit of the first word is set as well
C28_Witness ==
    /\ phase = "ok"
    /\ built.op = "BitArray::new"
    /\ last.op = "set"
    /\ last.index >= WordBits
    /\ BitArray_get(bits, last.index).value
    /\ \E j \in 0..(WordBits - 1) : BitArray_get(bits, j).value

\* C29: BitArray::new(capacity) fails when capacity is 0; otherwise it
\* allocates exactly ceil(capacity / 64) words, all zero, so that get(i) is
\* false for every i in [0, capacity) and count_ones() is 0.
C29_NewAllocatesZeroWords ==
    (built.op = "BitArray::new" /\ last.op = "new") =>
        /\ built.capacity = 0 => phase = "panicked"
        /\ phase = "ok" =>
              /\ bits.capacity = built.capacity
              /\ ~usize_lt(Len(bits.words) * WordBits, bits.capacity)
              /\ usize_lt((Len(bits.words) - 1) * WordBits, bits.capacity)
              /\ \A w \in DOMAIN bits.words : bits.words[w] = {}
              /\ \A i \in ReadIndices(bits) :
                    usize_lt(i, bits.capacity) =>
                       BitArray_get(bits, i) = [panic |-> FALSE, value |-> FALSE]
              /\ BitArray_count_ones(bits) = 0

\* C30: the structural invariant of the bit array. For every BitArray, made
\* by new or by from_words and after any set and clear calls, the number of
\* words is ceil(capacity / 64), the capacity is positive, and every bit of
\* the stored words at a position >= capacity is 0.
C30_StructuralInvariant ==
    phase = "ok" =>
        /\ usize_lt(0, bits.capacity)
        /\ ~usize_lt(Len(bits.words) * WordBits, bits.capacity)
        /\ usize_lt((Len(bits.words) - 1) * WordBits, bits.capacity)
        /\ \A i \in SetBits(bits) : usize_lt(i, bits.capacity)

\* C31: BitArray::from_words(words, capacity) fails when the number of words
\* is below ceil(capacity / 64); when it succeeds, get(i) returns, for every i
\* in [0, capacity), bit i mod 64 of word i div 64 of the words supplied.
C31_FromWordsValidates ==
    (built.op = "BitArray::from_words" /\ last.op = "from_words") =>
        /\ usize_lt(Len(built.words) * WordBits, built.capacity) => phase = "panicked"
        /\ phase = "ok" =>
              /\ bits.capacity = built.capacity
              /\ \A i \in ReadIndices(bits) :
                    usize_lt(i, bits.capacity) =>
                       /\ i >= 0
                       /\ (i \div WordBits) + 1 \in DOMAIN built.words
                       /\ BitArray_get(bits, i) =
                             [panic |-> FALSE,
                              value |-> (i % WordBits) \in built.words[(i \div WordBits) + 1]]

\* the status of the filter: Empty, Populated or Overfilled
StatusNow ==
    IF is_empty(Self) THEN "Empty"
    ELSE IF is_overfilled(Self) THEN "Overfilled"
    ELSE "Populated"

\* C32: the status follows Empty (len = 0) -> Populated (0 < len <=
\* expected_items) -> Overfilled (len > expected_items). An insert moves Empty
\* to Populated and never to Overfilled, and never moves Populated or
\* Overfilled backwards; contains and may_contain leave the status as it is;
\* clear gives Empty and is the only operation that returns to Empty.
C32_StatusMachine ==
    /\ [](/\ StatusNow = "Empty" <=> len(Self) = 0
          /\ StatusNow = "Populated" <=>
                (0 < len(Self) /\ len(Self) <= params.expected_items)
          /\ StatusNow = "Overfilled" <=> len(Self) > params.expected_items)
    /\ [][/\ last'.op = "insert" =>
                /\ StatusNow = "Empty" => StatusNow' = "Populated"
                /\ StatusNow = "Populated" => StatusNow' \in {"Populated", "Overfilled"}
                /\ StatusNow = "Overfilled" => StatusNow' = "Overfilled"
          /\ IsQuery(last'.op) => StatusNow' = StatusNow
          /\ last'.op = "clear" => StatusNow' = "Empty"
          /\ (StatusNow # "Empty" /\ StatusNow' = "Empty") => last'.op = "clear"]_vars

\* C32 witness: a clear has emptied a filter and inserts have since taken it
\* through Populated to Overfilled, where a contains call has left it
C32_Witness ==
    /\ StatusNow = "Overfilled"
    /\ last.op = "contains"
    /\ len(Self) = params.expected_items + 1
    /\ phase = "ok"

\* C33: the read-only operations have no effect on the membership state. A
\* contains or may_contain call leaves the bit array, items_inserted and the
\* parameters unchanged, and with them every value the reporting accessors
\* return.
C33_QueriesReadOnly ==
    [][IsQuery(last'.op) =>
          /\ bits' = bits
          /\ items_inserted(tracker') = items_inserted(tracker)
          /\ params' = params
          /\ tracker'.params = tracker.params
          /\ hash_strategy' = hash_strategy
          /\ len(Self)' = len(Self)
          /\ is_empty(Self)' = is_empty(Self)
          /\ capacity(Self)' = capacity(Self)
          /\ num_bits(Self)' = num_bits(Self)
          /\ num_hashes(Self)' = num_hashes(Self)
          /\ false_positive_rate(Self)' = false_positive_rate(Self)
          /\ saturation(Self)' = saturation(Self)
          /\ is_overfilled(Self)' = is_overfilled(Self)]_vars

\* C33 witness: a query on a filter that holds items has come back negative
C33_Witness ==
    /\ IsQuery(last.op)
    /\ ~last.ret
    /\ inserted # {}
    /\ SetBits(bits) # {}
    /\ len(Self) > 0

\* C34: validate() fails if and only if num_bits = 0, or num_hashes = 0, or
\* expected_items = 0, or false_positive_rate <= 0, or false_positive_rate
\* >= 1 (comparisons of f64, both false of a NaN); it succeeds otherwise and
\* does not modify the parameters, which new stores as they were handed in.
C34_ValidateIff ==
    built.op = "new" =>
        LET p == built.params
            invalid == \/ p.num_bits = 0
                       \/ p.num_hashes = 0
                       \/ p.expected_items = 0
                       \/ f64_le(p.false_positive_rate, F64(0))
                       \/ f64_ge(p.false_positive_rate, F64(FprOne))
        IN  /\ validate(p) # "Ok" <=> invalid
            /\ phase = "panicked" <=> invalid
            /\ phase = "ok" => (params = p /\ tracker.params = p)

\* C34 witness: new has rejected parameters whose only fault is a rate of
\* exactly 1
C34_Witness ==
    /\ built.op = "new"
    /\ phase = "panicked"
    /\ built.params.num_bits > 0
    /\ built.params.num_hashes > 0
    /\ built.params.expected_items > 0
    /\ built.params.false_positive_rate = F64(FprOne)
    /\ validate(built.params) = "false_positive_rate must be between 0 and 1"

\* C37: inserting again is idempotent on the bit array. When item x has been
\* inserted and no clear has occurred since, a further insert(x) returns
\* false and leaves every bit unchanged, and len() still grows by one.
C37_ReinsertIdempotent ==
    [][(/\ phase = "ok"
        /\ last'.op = "insert"
        /\ last'.item \in inserted)
          => /\ ~last'.ret
             /\ bits' = bits
             /\ len(Self)' = len(Self) + 1
             /\ phase' = "ok"]_vars

\* C37 witness: the one item of the filter has been inserted a second time
C37_Witness ==
    /\ last.op = "insert"
    /\ insert_calls = 2
    /\ inserted = {last.item}
    /\ ~last.ret
    /\ len(Self) = 2
    /\ SetBits(bits) = Positions(last.item)

\* the filter after insert(x) and then insert(y)
InsertBoth(self, x, y) ==
    PrecisionBloom_insert(PrecisionBloom_insert(self, x).self, y).self

\* the pairs of different items
ItemPairs == {pair \in SUBSET Items : Cardinality(pair) = 2}

\* the filter new returns for the parameters of this one
Fresh ==
    LET f == PrecisionBloom_new(params)
    IN  [bits |-> f.bits, hash_strategy |-> f.hash_strategy, params |-> f.params,
         tracker |-> f.tracker]

\* C38: the order of insertion does not matter for the resulting state. From
\* every reachable state and for any two items x and y, insert(x) followed by
\* insert(y) gives the same bit array, the same len() and the same contains
\* answer for every item as insert(y) followed by insert(x).
C38_InsertCommutes ==
    phase = "ok" =>
        \A pair \in ItemPairs :
           LET x == CHOOSE i \in pair : TRUE
               y == CHOOSE i \in pair : i # x
               xy == InsertBoth(Self, x, y)
               yx == InsertBoth(Self, y, x)
           IN  /\ xy.bits = yx.bits
               /\ len(xy) = len(yx)
               /\ len(xy) = len(Self) + 2
               /\ \A z \in Items :
                     PrecisionBloom_contains(xy, z) = PrecisionBloom_contains(yx, z)

\* C38 witness: two different items whose positions overlap without being
\* the same have been inserted into a new filter, and the filter is the one
\* either order of the two inserts gives
C38_Witness ==
    /\ phase = "ok"
    /\ insert_calls = 2
    /\ ~cleared
    /\ \E x, y \in inserted :
          /\ x # y
          /\ inserted = {x, y}
          /\ Positions(x) # Positions(y)
          /\ Positions(x) \cap Positions(y) # {}
          /\ Self = InsertBoth(Fresh, x, y)
          /\ Self = InsertBoth(Fresh, y, x)

\* the callers whose operation has returned
Completed == {t \in Threads : threads[t].pc = "done"}

\* only inserts have been called, and each has returned
OnlyInsertsReturned ==
    \A t \in Threads :
       \/ threads[t].pc = "idle"
       \/ threads[t].pc = "done" /\ threads[t].op = "insert"

\* an update of an insert that has returned is lost: a bit the insert set is
\* unset, or items_inserted is below the number of inserts that returned
UpdateLost ==
    \/ \E t \in Completed : \E i \in Positions(threads[t].item) : i \notin SetBits(bits)
    \/ items_inserted(tracker) < Cardinality(Completed)

\* C35: without synchronization the filter is not safe for two writers. When
\* the steps of two inserts on the same filter interleave, each word update
\* and each counter increment being a read followed by a write, a state is
\* reachable in which an update is lost (the witness); and an update is lost
\* only there: inserts that do not overlap lose nothing.
C35_LostUpdateOnlyWhenInterleaved ==
    OnlyInsertsReturned =>
        /\ UpdateLost => \A t \in Completed : threads[t].raced
        /\ (\A t \in Completed : ~threads[t].raced) =>
              /\ items_inserted(tracker) = Cardinality(Completed)
              /\ \A t \in Completed :
                    PrecisionBloom_contains(Self, threads[t].item).value

\* C35 witness: two inserts have interleaved and returned; a bit of one of
\* them is unset, so that contains is false of an item inserted, and
\* items_inserted is 1
C35_Witness ==
    /\ OnlyInsertsReturned
    /\ Completed = Threads
    /\ \A t \in Threads : threads[t].raced
    /\ items_inserted(tracker) = 1
    /\ \E t \in Threads :
          /\ \E i \in Positions(threads[t].item) : i \notin SetBits(bits)
          /\ ~PrecisionBloom_contains(Self, threads[t].item).value

\* C36: every insert, contains and clear terminates unconditionally. No step
\* of an operation waits for anything (the next step of a caller inside an
\* operation is always enabled), insert and contains visit at most
\* num_hashes positions, contains stopping at the first unset one, and every
\* operation that has been called returns.
C36_OperationsTerminate ==
    /\ [](\A t \in Threads :
             /\ threads[t].visited <= hash_strategy.num_hashes
             /\ Busy(t) => ENABLED ThreadStep(t)
             /\ (threads[t].pc = "done" /\ threads[t].op = "insert")
                   => threads[t].visited = hash_strategy.num_hashes)
    /\ \A t \in Threads : Busy(t) ~> threads[t].pc = "done"

\* C36 witness: a contains has returned false at the first position it found
\* unset, before the last of its positions, while an insert was setting bits
C36_Witness ==
    \E t \in Threads :
       /\ threads[t].pc = "done"
       /\ threads[t].op = "contains"
       /\ ~threads[t].ret
       /\ threads[t].visited > 1
       /\ threads[t].visited < hash_strategy.num_hashes
       /\ threads[t].raced

====
